---- MODULE Spec2Model ----
(***************************************************************************)
(* The attribute algebra of sunpy.net.attr and the VSO attribute set,      *)
(* walker bindings and result filter of sunpy.net.vso.attrs.               *)
(*                                                                         *)
(* An attribute object is a record                                         *)
(*   [cls, value, min, max, near, attrs]                                   *)
(* cls is the concrete class of the object; the other fields hold the      *)
(* instance attributes the class sets in __init__ (the fields a class does *)
(* not set hold "" / 0 / <<>> and are never read for that class; Vars      *)
(* names the ones that are instance attributes).                           *)
(*                                                                         *)
(* The outcome of a call is a record [kind, val]:                          *)
(*   kind = "attr"            the call returned the attribute val          *)
(*   kind = "NotImplemented"  the method returned NotImplemented           *)
(*   kind = "TypeError"       the call raised TypeError                    *)
(*   kind = "bool"            == returned the boolean val                  *)
(*   kind = "list"            walker.create returned the list val of blocks*)
(*   kind = "block"           walker.create returned the bare block val[1] *)
(*   kind = "error"           walker.create raised                         *)
(*   kind = "set"             filter_results returned the set val          *)
(*                                                                         *)
(* lhs and rhs are the operands the caller holds (for filter_results the   *)
(* tree and the collection of records), op the operation applied last and  *)
(* out its outcome.                                                        *)
(***************************************************************************)
EXTENDS Integers, Sequences, FiniteSets, TLC

VARIABLES lhs, rhs, op, out

vars == <<lhs, rhs, op, out>>

\* ------------------------------------------------------------------ bounds

\* The largest number of leaves of a tree kept as an operand of a later
\* operation (results themselves may be larger).
MaxLeaves == 3

\* ------------------------------------------------------------- constructors

Nil == [cls |-> "None", value |-> "", min |-> 0, max |-> 0, near |-> 0, attrs |-> <<>>]

\* _VSOSimpleAttr.__init__ for the subclass c: self.value = value
Scalar(c, v) == [cls |-> c, value |-> v, min |-> 0, max |-> 0, near |-> 0, attrs |-> <<>>]

DummyAttr == [cls |-> "DummyAttr", value |-> "", min |-> 0, max |-> 0, near |-> 0, attrs |-> <<>>]

\* AttrAnd.__init__: self.attrs = attrs
AttrAnd(s) == [cls |-> "AttrAnd", value |-> "", min |-> 0, max |-> 0, near |-> 0, attrs |-> s]

\* AttrOr.__init__: self.attrs = attrs
AttrOr(s) == [cls |-> "AttrOr", value |-> "", min |-> 0, max |-> 0, near |-> 0, attrs |-> s]

\* Wave.__init__ with waveunit='Angstrom' (to_angstrom is then the identity):
\* self.min, self.max = sorted([wavemin, wavemax])
Wave(wavemin, wavemax) ==
    [cls |-> "Wave", value |-> "",
     min |-> IF wavemin <= wavemax THEN wavemin ELSE wavemax,
     max |-> IF wavemin <= wavemax THEN wavemax ELSE wavemin,
     near |-> 0, attrs |-> <<>>]

\* Time.__init__ with near=None (parse_time taken as the identity on the
\* integer instants used here; 0 stands for near = None):
\* self.start = start, self.end = end, and _Range.__init__ copies them,
\* unsorted, into min and max.
Time(start, end) ==
    [cls |-> "Time", value |-> "", min |-> start, max |-> end, near |-> 0,
     attrs |-> <<>>]

\* The subclasses of _VSOSimpleAttr (four of the twelve; all twelve have the
\* same empty body).
ScalarClasses == {"Instrument", "Provider", "Source", "Level"}

\* ----------------------------------------------------------------- outcomes

Returned(a) == [kind |-> "attr", val |-> a]

NotImplemented == [kind |-> "NotImplemented", val |-> Nil]

TypeError == [kind |-> "TypeError", val |-> Nil]

NoCall == [kind |-> "none", val |-> Nil]

\* --------------------------------------------------- equality and hashing

\* vars(self): the names of the instance attributes the class's __init__ sets.
Vars(n) ==
    CASE n.cls \in ScalarClasses -> {"value"}
      [] n.cls \in {"AttrAnd", "AttrOr", "ValueAttr", "Field"} -> {"attrs"}
      [] n.cls = "Wave" -> {"min", "max", "unit", "create"}
      [] n.cls = "Time" -> {"start", "end", "near", "min", "max", "create"}
      [] OTHER -> {}

\* The value vars(n)[k] as an item [k, s, i]: s a string value, i an integer
\* value.  "create" holds the class itself, "unit" is always 'Angstrom',
\* Time's start/end are what _Range.__init__ copies into min/max.
VarsItem(n, k) ==
    CASE k = "value" -> [k |-> k, s |-> n.value, i |-> 0]
      [] k = "create" -> [k |-> k, s |-> n.cls, i |-> 0]
      [] k = "unit" -> [k |-> k, s |-> "Angstrom", i |-> 0]
      [] k \in {"min", "start"} -> [k |-> k, s |-> "", i |-> n.min]
      [] k \in {"max", "end"} -> [k |-> k, s |-> "", i |-> n.max]
      [] k = "near" -> [k |-> k, s |-> "", i |-> n.near]
      [] OTHER -> [k |-> k, s |-> "", i |-> Len(n.attrs)]

\* Attr.__eq__: dict(vars(self)) == dict(vars(other)).  The class of neither
\* operand is looked at.  (A class whose vars hold "attrs" overrides __eq__,
\* so the attrs item is only ever compared by its key.)
Attr__eq__(self, other) ==
    /\ Vars(self) = Vars(other)
    /\ \A k \in Vars(self) : VarsItem(self, k) = VarsItem(other, k)

\* DummyAttr.__eq__: isinstance(other, DummyAttr)
DummyAttr__eq__(self, other) == other.cls = "DummyAttr"

RECURSIVE PyEq(_, _)
RECURSIVE Hash(_)

\* key in set(s): some element of s with the key's hash that == the key.
InSet(x, s) ==
    \E i \in 1..Len(s) : Hash(s[i]) = Hash(x) /\ PyEq(s[i], x)

\* len(set(s)): an element is dropped when an earlier one has its hash and
\* is == to it.
SetLen(s) ==
    Cardinality({i \in 1..Len(s) :
        \A j \in 1..(i - 1) : ~(Hash(s[j]) = Hash(s[i]) /\ PyEq(s[j], s[i]))})

\* set(s) == set(t)
SetEq(s, t) ==
    /\ SetLen(s) = SetLen(t)
    /\ \A i \in 1..Len(s) : InSet(s[i], t)

\* AttrAnd.__eq__
AttrAnd__eq__(self, other) ==
    IF other.cls # "AttrAnd" THEN FALSE ELSE SetEq(self.attrs, other.attrs)

\* AttrOr.__eq__
AttrOr__eq__(self, other) ==
    IF other.cls # "AttrOr" THEN FALSE ELSE SetEq(self.attrs, other.attrs)

\* self == other: the __eq__ of self's class (no modelled class is a subclass
\* of another modelled class that defines __eq__ differently, so the
\* reflected method never takes precedence, and no __eq__ here returns
\* NotImplemented).
PyEq(a, b) ==
    CASE a.cls = "DummyAttr" -> DummyAttr__eq__(a, b)
      [] a.cls = "AttrAnd" -> AttrAnd__eq__(a, b)
      [] a.cls = "AttrOr" -> AttrOr__eq__(a, b)
      [] OTHER -> Attr__eq__(a, b)

\* hash(n), as the value that is hashed (two hashes are equal here exactly
\* when the hashed values are equal; real hash collisions only make more
\* hashes equal).
\*   Attr.__hash__       hash(frozenset(vars(self).iteritems()))
\*   DummyAttr.__hash__  hash(None)
\*   AttrAnd.__hash__, AttrOr.__hash__   hash(frozenset(self.attrs))
Hash(n) ==
    CASE n.cls = "DummyAttr" -> [tag |-> "None", items |-> {}, sub |-> {}]
      [] n.cls \in {"AttrAnd", "AttrOr"} ->
            [tag |-> "frozenset", items |-> {},
             sub |-> {Hash(n.attrs[i]) : i \in 1..Len(n.attrs)}]
      [] OTHER ->
            [tag |-> "frozenset", items |-> {VarsItem(n, k) : k \in Vars(n)},
             sub |-> {}]

\* ------------------------------------------------------------------ collides

\* Simple_collides comparing the values as well: two leaves of one class
\* collide only when they carry the same value.
Simple_collides_SameValue(self, other) ==
    IF other.cls = self.cls /\ other.value = self.value THEN "True" ELSE "False"

\* _VSOSimpleAttr.collides, Wave.collides, Time.collides:
\* isinstance(other, self.__class__)
Simple_collides(self, other) == IF other.cls = self.cls THEN "True" ELSE "False"

\* DummyAttr.collides: return False
DummyAttr_collides(self, other) == "False"

\* AttrAnd.collides: any(elem.collides(other) for elem in self).  The
\* generator iterates self, not self.attrs; AttrAnd defines neither __iter__
\* nor __getitem__, so iter(self) raises TypeError before any element is
\* looked at.
AttrAnd_collides(self, other) == "TypeError"

\* AttrOr.collides: all(elem.collides(other) for elem in self); iter(self)
\* raises TypeError in the same way.
AttrOr_collides(self, other) == "TypeError"

\* self.collides(other): "True", "False", or "TypeError" when the call raises.
Collides(self, other) ==
    CASE self.cls = "DummyAttr" -> DummyAttr_collides(self, other)
      [] self.cls = "AttrAnd" -> AttrAnd_collides(self, other)
      [] self.cls = "AttrOr" -> AttrOr_collides(self, other)
      [] OTHER -> Simple_collides(self, other)

\* any(other.collides(elem) for elem in attrs), from element i on: stops at
\* the first True, and at the first call that raises.
RECURSIVE AnyCollides(_, _, _)
AnyCollides(other, attrs, i) ==
    IF i > Len(attrs) THEN "False"
    ELSE LET c == Collides(other, attrs[i])
         IN  IF c = "False" THEN AnyCollides(other, attrs, i + 1) ELSE c

\* ------------------------------------------------------------------- a & b

RECURSIVE OpAnd(_, _)

\* AttrOr([f(elem) for elem in attrs]) where f(elem) is outs[i]: an element
\* whose `&` raises ends the comprehension with that exception.
OrOfOutcomes(outs) ==
    IF \E i \in 1..Len(outs) : outs[i].kind # "attr" THEN TypeError
    ELSE Returned(AttrOr([i \in 1..Len(outs) |-> outs[i].val]))

\* Attr.__and__
Attr__and__(self, other) ==
    IF other.cls = "AttrOr"
    THEN OrOfOutcomes([i \in 1..Len(other.attrs) |-> OpAnd(other.attrs[i], self)])
    ELSE LET c == Collides(self, other)
         IN  CASE c = "TypeError" -> TypeError
               [] c = "True" -> NotImplemented
               [] OTHER -> Returned(AttrAnd(<<self, other>>))

\* DummyAttr.__and__: return other
DummyAttr__and__(self, other) == Returned(other)

\* AttrAnd.__and__ (also bound as AttrAnd.__rand__)
AttrAnd__and__(self, other) ==
    LET c == AnyCollides(other, self.attrs, 1)
    IN  CASE c = "TypeError" -> TypeError
          [] c = "True" -> NotImplemented
          [] other.cls = "AttrAnd" -> Returned(AttrAnd(self.attrs \o other.attrs))
          [] other.cls = "AttrOr" ->
                OrOfOutcomes([i \in 1..Len(other.attrs) |-> OpAnd(other.attrs[i], self)])
          [] OTHER -> Returned(AttrAnd(Append(self.attrs, other)))

\* AttrOr.__and__ (also bound as AttrOr.__rand__)
AttrOr__and__(self, other) ==
    OrOfOutcomes([i \in 1..Len(self.attrs) |-> OpAnd(self.attrs[i], other)])

\* type(self).__and__(self, other)
Method__and__(self, other) ==
    CASE self.cls = "DummyAttr" -> DummyAttr__and__(self, other)
      [] self.cls = "AttrAnd" -> AttrAnd__and__(self, other)
      [] self.cls = "AttrOr" -> AttrOr__and__(self, other)
      [] OTHER -> Attr__and__(self, other)

\* The classes that bind __rand__ (__rand__ = __and__ in AttrAnd and AttrOr).
HasRand(c) == c \in {"AttrAnd", "AttrOr"}

\* The expression a & b: a.__and__(b); when that returns NotImplemented and
\* the operands are of different classes, b.__rand__(a) if b's class binds
\* it; NotImplemented from both (or no reflected method) is a TypeError.
OpAnd(a, b) ==
    LET r == Method__and__(a, b)
    IN  IF r.kind # "NotImplemented" THEN r
        ELSE IF a.cls # b.cls /\ HasRand(b.cls)
             THEN LET rr == Method__and__(b, a)
                  IN  IF rr.kind = "NotImplemented" THEN TypeError ELSE rr
             ELSE TypeError

\* ------------------------------------------------------------------- a | b

\* Attr.__or__
Attr__or__(self, other) ==
    IF PyEq(self, other) THEN Returned(self)
    ELSE Returned(AttrOr(<<self, other>>))

\* DummyAttr.__or__: return other
DummyAttr__or__(self, other) == Returned(other)

\* AttrOr.__or__ (also bound as AttrOr.__ror__)
AttrOr__or__(self, other) ==
    IF other.cls = "AttrOr" THEN Returned(AttrOr(self.attrs \o other.attrs))
    ELSE Returned(AttrOr(Append(self.attrs, other)))

\* The expression a | b: a.__or__(b).  No __or__ returns NotImplemented, so
\* the reflected __ror__ is never tried.
OpOr(a, b) ==
    CASE a.cls = "DummyAttr" -> DummyAttr__or__(a, b)
      [] a.cls = "AttrOr" -> AttrOr__or__(a, b)
      [] OTHER -> Attr__or__(a, b)

\* --------------------------------------------------------------- and_, or_

\* and_(*args), from argument i on with value the accumulator: value &= elem
RECURSIVE and_from(_, _, _)
and_from(value, args, i) ==
    IF i > Len(args) THEN Returned(value)
    ELSE LET r == OpAnd(value, args[i])
         IN  IF r.kind = "attr" THEN and_from(r.val, args, i + 1) ELSE r

and_(args) == and_from(DummyAttr, args, 1)

\* or_(*args): value |= elem
RECURSIVE or_from(_, _, _)
or_from(value, args, i) ==
    IF i > Len(args) THEN Returned(value)
    ELSE LET r == OpOr(value, args[i])
         IN  IF r.kind = "attr" THEN or_from(r.val, args, i + 1) ELSE r

or_(args) == or_from(DummyAttr, args, 1)


\* ------------------------------------------------------------------ walker

\* A ValueAttr's attrs dictionary, and a query block, are sets of entries
\* [path, s, i]: the compound key, and the value as a string s or integer i.
Entry(path, str, int) == [path |-> path, s |-> str, i |-> int]

\* str.lower() of a class name
LowerName(c) ==
    CASE c = "Instrument" -> "instrument"
      [] c = "Provider" -> "provider"
      [] c = "Source" -> "source"
      [] c = "Level" -> "level"
      [] OTHER -> c

\* The converters registered with walker.add_converter: the attrs of the
\* ValueAttr a domain leaf is rewritten to.  (Time's values are the instants
\* formatted with TIMEFORMAT; near is None, kept as 0, without a hint.)
Convert(x) ==
    CASE x.cls = "Wave" ->
            {Entry(<<"wave", "wavemin">>, "", x.min),
             Entry(<<"wave", "wavemax">>, "", x.max),
             Entry(<<"wave", "waveunit">>, "Angstrom", 0)}
      [] x.cls = "Time" ->
            {Entry(<<"time", "start">>, "", x.min),
             Entry(<<"time", "end">>, "", x.max),
             Entry(<<"time", "near">>, "", x.near)}
      [] OTHER -> {Entry(<<LowerName(x.cls)>>, x.value, 0)}

\* _apply for ValueAttr: block[path] = v for every item of root.attrs
Apply_ValueAttr(attrs, block) ==
    {e \in block : \A n \in attrs : n.path # e.path} \cup attrs

RECURSIVE walker_apply(_, _)
\* _apply for AttrAnd, from child i on: wlk.apply(attr, api, queryblock) for
\* each child in turn; a child whose apply raises ends the loop.
RECURSIVE Apply_AttrAnd(_, _, _)
Apply_AttrAnd(attrs, i, r) ==
    IF i > Len(attrs) \/ r.kind # "ok" THEN r
    ELSE Apply_AttrAnd(attrs, i + 1, walker_apply(attrs[i], r.block))

\* walker.apply(root, api, queryblock): the applier of root's class (for a
\* domain leaf the converter, then the ValueAttr applier; none is registered
\* for AttrOr).  [kind |-> "ok", block |-> the block afterwards] or
\* [kind |-> "error"].
walker_apply(root, block) ==
    CASE root.cls = "AttrAnd" -> Apply_AttrAnd(root.attrs, 1, [kind |-> "ok", block |-> block])
      [] root.cls = "DummyAttr" -> [kind |-> "ok", block |-> block]
      [] root.cls = "AttrOr" -> [kind |-> "error", block |-> block]
      [] OTHER -> [kind |-> "ok", block |-> Apply_ValueAttr(Convert(root), block)]

\* api.factory.create('QueryRequestBlock'): a block with nothing set in it
EmptyBlock == {}

\* _create for ValueAttr and AttrAnd: a fresh block, wlk.apply(root, api,
\* value), return [value]
Create_Block(root) ==
    LET r == walker_apply(root, EmptyBlock)
    IN  IF r.kind = "ok" THEN [kind |-> "list", val |-> <<r.block>>]
        ELSE [kind |-> "error", val |-> <<>>]

\* _create for DummyAttr: return api.factory.create('QueryRequestBlock'),
\* the block itself and not a list holding it
Create_DummyAttr(root) == [kind |-> "block", val |-> <<EmptyBlock>>]

RECURSIVE walker_create(_, _)
\* _create for AttrOr, from child i on: blocks.extend(wlk.create(attr, api)).
\* When create returns a bare block, extend iterates the factory's object:
\* iter says what that does ("raises", or "empty": it yields nothing).
RECURSIVE Create_AttrOr(_, _, _, _)
Create_AttrOr(attrs, i, blocks, iter) ==
    IF i > Len(attrs) THEN [kind |-> "list", val |-> blocks]
    ELSE LET c == walker_create(attrs[i], iter)
         IN  CASE c.kind = "list" -> Create_AttrOr(attrs, i + 1, blocks \o c.val, iter)
               [] c.kind = "block" /\ iter = "empty" -> Create_AttrOr(attrs, i + 1, blocks, iter)
               [] OTHER -> [kind |-> "error", val |-> <<>>]

\* walker.create(root, api): the creator of root's class (for a domain leaf
\* the converter, then the ValueAttr creator).
walker_create(root, iter) ==
    CASE root.cls = "AttrOr" -> Create_AttrOr(root.attrs, 1, <<>>, iter)
      [] root.cls = "DummyAttr" -> Create_DummyAttr(root)
      [] OTHER -> Create_Block(root)

\* What iterating a query block of the backend's factory does.
BlockIteration == {"raises", "empty"}

\* ------------------------------------------- building trees with & and |

\* The leaves the caller constructs: two Instrument values, one value of
\* three other scalar classes, and the identity element.
Leaves ==
    {Scalar("Instrument", "a"), Scalar("Instrument", "b"), Scalar("Provider", "a"),
     Scalar("Source", "a"), Scalar("Level", "a"), DummyAttr}

RECURSIVE SumLeaves(_, _)
RECURSIVE NumLeaves(_)
\* The number of leaves of the trees s[i..]
SumLeaves(s, i) ==
    IF i > Len(s) THEN 0 ELSE NumLeaves(s[i]) + SumLeaves(s, i + 1)

\* The number of leaves of the tree n
NumLeaves(n) ==
    IF n.cls \in {"AttrAnd", "AttrOr"} THEN SumLeaves(n.attrs, 1) ELSE 1

Init ==
    /\ lhs \in Leaves
    /\ rhs \in Leaves
    /\ op = "new"
    /\ out = NoCall

\* What the caller writes as an operand: a leaf, or one `&` or `|` of two
\* leaves that returns an attribute.
Operands ==
    Leaves \cup
    {r.val : r \in {x \in {OpAnd(a, b) : a \in Leaves, b \in Leaves}
                          \cup {OpOr(a, b) : a \in Leaves, b \in Leaves} :
                        x.kind = "attr"}}

\* The caller writes a new left or right operand.
New ==
    /\ \E t \in Operands :
          \/ lhs' = t /\ rhs' = rhs
          \/ rhs' = t /\ lhs' = lhs
    /\ op' = "new"
    /\ out' = NoCall

\* lhs & rhs
And ==
    /\ op' = "&"
    /\ out' = OpAnd(lhs, rhs)
    /\ UNCHANGED <<lhs, rhs>>

\* lhs.__and__(rhs): the method alone, whose NotImplemented the `&`
\* expression turns into the reflected call or a TypeError.
CallAnd ==
    /\ op' = "__and__"
    /\ out' = Method__and__(lhs, rhs)
    /\ UNCHANGED <<lhs, rhs>>

\* lhs | rhs
Or ==
    /\ op' = "|"
    /\ out' = OpOr(lhs, rhs)
    /\ UNCHANGED <<lhs, rhs>>

\* and_(lhs, rhs)
FoldAnd ==
    /\ op' = "and_"
    /\ out' = and_(<<lhs, rhs>>)
    /\ UNCHANGED <<lhs, rhs>>

\* or_(lhs, rhs)
FoldOr ==
    /\ op' = "or_"
    /\ out' = or_(<<lhs, rhs>>)
    /\ UNCHANGED <<lhs, rhs>>

\* lhs == rhs
Compare ==
    /\ op' = "=="
    /\ out' = [kind |-> "bool", val |-> PyEq(lhs, rhs)]
    /\ UNCHANGED <<lhs, rhs>>

\* walker.create(lhs, api)
Create ==
    /\ op' = "create"
    /\ \E iter \in BlockIteration : out' = walker_create(lhs, iter)
    /\ UNCHANGED <<lhs, rhs>>

\* The attribute an operation returned becomes an operand of later ones.
Keep ==
    /\ out.kind = "attr"
    /\ op # "__and__"
    /\ NumLeaves(out.val) <= MaxLeaves
    /\ \/ lhs' = out.val /\ rhs' = rhs
       \/ rhs' = out.val /\ lhs' = lhs
    /\ op' = "new"
    /\ out' = NoCall

Next == New \/ And \/ CallAnd \/ Or \/ FoldAnd \/ FoldOr \/ Compare \/ Create \/ Keep

Spec == Init /\ [][Next]_vars

\* ---------------------------------------------- operations on leaves only

\* Leaves of the domain attribute set: scalar leaves of four classes with
\* two values each, two wavelength ranges and a time range.
DomainLeaves ==
    {Scalar(c, v) : c \in ScalarClasses, v \in {"a", "b"}}
    \cup {Wave(1, 2), Wave(2, 3), Time(1, 2)}

InitLeaves ==
    /\ lhs \in DomainLeaves
    /\ rhs \in DomainLeaves
    /\ op = "new"
    /\ out = NoCall

\* The caller constructs a leaf as the left or the right operand.
NewLeaf ==
    /\ \E l \in DomainLeaves :
          \/ lhs' = l /\ rhs' = rhs
          \/ rhs' = l /\ lhs' = lhs
    /\ op' = "new"
    /\ out' = NoCall

NextLeaves == NewLeaf \/ And \/ CallAnd \/ Or \/ FoldAnd \/ FoldOr \/ Compare \/ Create

SpecLeaves == InitLeaves /\ [][NextLeaves]_vars

\* ------------------------------------------------------------ properties

IsScalar(n) == n.cls \in ScalarClasses

IsDomainLeaf(n) == n.cls \in ScalarClasses \cup {"Wave", "Time"}

RECURSIVE ConjClasses(_, _)
\* The classes of the leaves below the conjunction's children s[i..],
\* descending through AttrAnd children only.
ConjClasses(s, i) ==
    IF i > Len(s) THEN <<>>
    ELSE (CASE s[i].cls = "AttrAnd" -> ConjClasses(s[i].attrs, 1)
            [] s[i].cls = "AttrOr" -> <<>>
            [] OTHER -> <<s[i].cls>>) \o ConjClasses(s, i + 1)

RECURSIVE NoClassTwice(_)
\* No conjunction of the tree n holds two leaves of one scalar class.
NoClassTwice(n) ==
    /\ n.cls = "AttrAnd" =>
          LET cs == ConjClasses(n.attrs, 1)
          IN  \A i \in 1..Len(cs) : \A j \in 1..Len(cs) :
                  (i # j /\ cs[i] \in ScalarClasses) => cs[i] # cs[j]
    /\ \A i \in 1..Len(n.attrs) : NoClassTwice(n.attrs[i])

RECURSIVE Flat(_)
\* No AttrAnd of the tree n has an AttrAnd child, no AttrOr an AttrOr child.
Flat(n) ==
    \A i \in 1..Len(n.attrs) :
        /\ ~(n.cls \in {"AttrAnd", "AttrOr"} /\ n.attrs[i].cls = n.cls)
        /\ Flat(n.attrs[i])

RECURSIVE DummyFree(_)
\* The tree n holds no DummyAttr.
DummyFree(n) ==
    /\ n.cls # "DummyAttr"
    /\ \A i \in 1..Len(n.attrs) : DummyFree(n.attrs[i])

RECURSIVE StructEq(_, _)
\* Same concrete class and same field values (the children of a conjunction
\* or disjunction compared as sets).
StructEq(a, b) ==
    /\ a.cls = b.cls
    /\ a.value = b.value /\ a.min = b.min /\ a.max = b.max /\ a.near = b.near
    /\ \A i \in 1..Len(a.attrs) : \E j \in 1..Len(b.attrs) : StructEq(a.attrs[i], b.attrs[j])
    /\ \A j \in 1..Len(b.attrs) : \E i \in 1..Len(a.attrs) : StructEq(a.attrs[i], b.attrs[j])

\* C1: every tree a successful `&`, `|`, and_() or or_() returns, and every
\* operand built that way, has no conjunction with two leaves of one scalar
\* class below it (through AttrAnd children).  Stated for operands that hold
\* no DummyAttr, where it already fails.
C1_NoClassTwiceInAnd ==
    (DummyFree(lhs) /\ DummyFree(rhs)) =>
        /\ NoClassTwice(lhs)
        /\ NoClassTwice(rhs)
        /\ (op \in {"&", "|", "and_", "or_"} /\ out.kind = "attr") => NoClassTwice(out.val)

\* C2: for two domain leaves, a.__and__(b) returns NotImplemented when both
\* are of one scalar class (so a & b is no attribute at all), and when their
\* classes differ a & b is the flat AttrAnd([a, b]).
C2_LeafAnd ==
    (IsDomainLeaf(lhs) /\ IsDomainLeaf(rhs)) =>
        /\ (op = "__and__" /\ IsScalar(lhs) /\ lhs.cls = rhs.cls) => out = NotImplemented
        /\ (op = "&" /\ IsScalar(lhs) /\ lhs.cls = rhs.cls) => out.kind # "attr"
        /\ (op \in {"__and__", "&"} /\ lhs.cls # rhs.cls) =>
              out = Returned(AttrAnd(<<lhs, rhs>>))

\* C2 witness: Instrument('a').__and__(Instrument('b')) was called and
\* returned NotImplemented.
C2_Witness ==
    /\ op = "__and__"
    /\ lhs = Scalar("Instrument", "a")
    /\ rhs = Scalar("Instrument", "b")
    /\ out = NotImplemented

\* C3: a == b exactly when a and b have the same class and the same field
\* values, and then their hashes are equal.
C3_StructuralEq ==
    op = "==" =>
        /\ out.val <=> StructEq(lhs, rhs)
        /\ out.val => Hash(lhs) = Hash(rhs)

\* C4: a tree returned by `&` or `|` is flat: no AttrAnd directly inside an
\* AttrAnd, no AttrOr directly inside an AttrOr.  Stated for operands that
\* hold no DummyAttr, where it already fails.
C4_FoldsFlat ==
    (DummyFree(lhs) /\ DummyFree(rhs) /\ op \in {"&", "|"} /\ out.kind = "attr")
    => Flat(out.val)

\* C5: AttrAnd([x, y]) & AttrOr([p, q]), the four leaves of pairwise
\* different scalar classes, returns an attribute equal to
\* AttrOr([AttrAnd([x, y, p]), AttrAnd([x, y, q])]) whose branches are flat
\* three-child conjunctions.
C5_Distributes ==
    ( /\ op = "&"
      /\ lhs.cls = "AttrAnd" /\ Len(lhs.attrs) = 2
      /\ rhs.cls = "AttrOr" /\ Len(rhs.attrs) = 2
      /\ \A n \in {lhs.attrs[1], lhs.attrs[2], rhs.attrs[1], rhs.attrs[2]} : IsScalar(n)
      /\ Cardinality({lhs.attrs[1].cls, lhs.attrs[2].cls,
                      rhs.attrs[1].cls, rhs.attrs[2].cls}) = 4 )
    => /\ out.kind = "attr"
       /\ out.val.cls = "AttrOr"
       /\ Len(out.val.attrs) = 2
       /\ \A i \in 1..2 :
             /\ out.val.attrs[i].cls = "AttrAnd"
             /\ Len(out.val.attrs[i].attrs) = 3
             /\ Flat(out.val.attrs[i])
       /\ PyEq(out.val, AttrOr(<<AttrAnd(Append(lhs.attrs, rhs.attrs[1])),
                                 AttrAnd(Append(lhs.attrs, rhs.attrs[2]))>>))

\* C6: with DummyAttr() as either operand, `&` and `|` return an attribute
\* equal to the other operand.
C6_DummyIdentity ==
    /\ (op \in {"&", "|"} /\ lhs = DummyAttr) => (out.kind = "attr" /\ PyEq(out.val, rhs))
    /\ (op \in {"&", "|"} /\ rhs = DummyAttr) => (out.kind = "attr" /\ PyEq(out.val, lhs))

\* Some child of Q collides with some child of P.
ChildCollision(P, Q) ==
    \E i \in 1..Len(P.attrs) : \E j \in 1..Len(Q.attrs) :
        Collides(Q.attrs[j], P.attrs[i]) = "True"

\* C10: for two conjunctions P and Q, P.__and__(Q) returns the flat AttrAnd
\* of P's children followed by Q's when no child of Q collides with a child
\* of P, and NotImplemented when one does; nothing is raised.  Stated for
\* conjunctions that hold no DummyAttr, where it already fails.
C10_AndOfConjunctions ==
    ( /\ op = "__and__" /\ lhs.cls = "AttrAnd" /\ rhs.cls = "AttrAnd"
      /\ DummyFree(lhs) /\ DummyFree(rhs) ) =>
        IF ChildCollision(lhs, rhs) THEN out = NotImplemented
        ELSE out = Returned(AttrAnd(lhs.attrs \o rhs.attrs))

\* --------------------------------------------------------------- A ^ B

\* The expression value |= elem of _Range.__xor__ and the inherited
\* self.create(...): the class of the range called with two bounds.
Range_create(c, lo, hi) == IF c = "Wave" THEN Wave(lo, hi) ELSE Time(lo, hi)

Min(a, b) == IF a <= b THEN a ELSE b

\* _Range.__xor__
Range__xor__(self, other) ==
    IF other.cls # self.cls THEN NotImplemented
    ELSE LET new0 == DummyAttr
             new1 == IF self.min < other.min
                     THEN OpOr(new0, Range_create(self.cls, self.min, Min(other.min, self.max))).val
                     ELSE new0
             new2 == IF other.max < self.max
                     THEN OpOr(new1, Range_create(self.cls, other.max, self.max)).val
                     ELSE new1
         IN  Returned(new2)

\* Time.__xor__
Time__xor__(self, other) ==
    IF other.cls # self.cls THEN TypeError
    ELSE IF self.near # 0 \/ other.near # 0 THEN TypeError
    ELSE Range__xor__(self, other)

\* The expression a ^ b for a range a: Time defines __xor__, Wave inherits
\* _Range.__xor__; no class binds __rxor__, so NotImplemented is a TypeError.
OpXor(a, b) ==
    LET r == IF a.cls = "Time" THEN Time__xor__(a, b) ELSE Range__xor__(a, b)
    IN  IF r.kind = "NotImplemented" THEN TypeError ELSE r

\* The bounds of the ranges the caller constructs.
Points == {1, 3, 5, 10, 15}

\* Time(start, end, near) with a near hint.
TimeNear(start, end, near) == [Time(start, end) EXCEPT !.near = near]

\* Wave and Time ranges with min <= max, and one Time with a near hint.
Ranges ==
    {Wave(a, b) : a \in Points, b \in Points}
    \cup {Time(q[1], q[2]) : q \in {x \in Points \X Points : x[1] <= x[2]}}
    \cup {TimeNear(1, 10, 5)}

InitXor ==
    /\ lhs \in Ranges
    /\ rhs \in Ranges
    /\ op = "new"
    /\ out = NoCall

\* The caller constructs a range as the left or the right operand.
NewRange ==
    /\ \E r \in Ranges :
          \/ lhs' = r /\ rhs' = rhs
          \/ rhs' = r /\ lhs' = lhs
    /\ op' = "new"
    /\ out' = NoCall

\* lhs ^ rhs
Xor ==
    /\ op' = "^"
    /\ out' = OpXor(lhs, rhs)
    /\ UNCHANGED <<lhs, rhs>>

NextXor == NewRange \/ Xor

SpecXor == InitXor /\ [][NextXor]_vars

\* The ranges an outcome of `^` holds: none for the identity element, the
\* range itself, or the children of the disjunction.
Pieces(n) ==
    CASE n.cls = "DummyAttr" -> {}
      [] n.cls = "AttrOr" -> {n.attrs[i] : i \in 1..Len(n.attrs)}
      [] OTHER -> {n}

\* C7: for ranges A, B of one kind without near hint, A ^ B is the identity
\* element when B covers A; otherwise it is one or two ranges of that kind,
\* each inside [A.min, A.max] and none reaching into the interior of B.
\* [1,10] ^ [5,15] is [1,5], [1,10] ^ [3,5] is [1,3] | [5,10], A ^ A is the
\* identity element.
C7_XorIsDifference ==
    (op = "^" /\ lhs.cls = rhs.cls /\ lhs.near = 0 /\ rhs.near = 0) =>
        /\ out.kind = "attr"
        /\ IF rhs.min <= lhs.min /\ lhs.max <= rhs.max
           THEN out.val = DummyAttr
           ELSE /\ Cardinality(Pieces(out.val)) \in {1, 2}
                /\ \A p \in Pieces(out.val) :
                      /\ p.cls = lhs.cls
                      /\ lhs.min <= p.min /\ p.min <= p.max /\ p.max <= lhs.max
                      /\ p.max <= rhs.min \/ rhs.max <= p.min
        /\ (lhs = Wave(1, 10) /\ rhs = Wave(5, 15)) => out.val = Wave(1, 5)
        /\ (lhs = Wave(1, 10) /\ rhs = Wave(3, 5)) =>
              out.val = AttrOr(<<Wave(1, 3), Wave(5, 10)>>)
        /\ lhs = rhs => out.val = DummyAttr

RECURSIVE SumBranches(_, _)
RECURSIVE Branches(_)
\* The number of non-disjunction branches of the trees s[i..]
SumBranches(s, i) ==
    IF i > Len(s) THEN 0 ELSE Branches(s[i]) + SumBranches(s, i + 1)

\* The number of non-disjunction branches of the tree n
Branches(n) == IF n.cls = "AttrOr" THEN SumBranches(n.attrs, 1) ELSE 1

\* C9: walker.create returns a list of query blocks, one for each
\* non-disjunction branch of the tree, and for the identity element a list
\* of one empty block.
C9_CreateReturnsList ==
    op = "create" =>
        /\ out.kind = "list"
        /\ Len(out.val) = Branches(lhs)
        /\ lhs = DummyAttr => out.val = <<EmptyBlock>>

\* ----------------------------------------------------------- filter_results

\* Field.__init__: a ValueAttr with the one key ('field', 'fielditem'); the
\* item is kept in value.
Field(fielditem) ==
    [cls |-> "Field", value |-> fielditem, min |-> 0, max |-> 0, near |-> 0,
     attrs |-> <<>>]

\* str.lower() of the values used here
Lower(v) ==
    CASE v = "AIA" -> "aia"
      [] v = "HMI" -> "hmi"
      [] OTHER -> v

\* to_angstrom(value, unit) of sunpy.util.util for the units used here
to_angstrom(v, unit) == IF unit = "nm" THEN 10 * v ELSE v

\* A result record: scalar holds the flat scalar fields the server sent (a
\* record may lack one), wave the wavelength interval and its unit.
Item(scalar, wavemin, wavemax, waveunit) ==
    [scalar |-> scalar, wavemin |-> wavemin, wavemax |-> wavemax, waveunit |-> waveunit]

\* The records the filter is tried on: 100, 200 and 300 Angstrom with an
\* instrument, and one of 20 nm whose instrument field the server omitted.
Items ==
    {Item([instrument |-> "AIA"], 100, 100, "Angstrom"),
     Item([instrument |-> "aia"], 200, 200, "Angstrom"),
     Item([instrument |-> "HMI"], 300, 300, "Angstrom"),
     Item([provider |-> "SDAC"], 20, 20, "nm")}

\* Filter_Simple without the hasattr test: a record that lacks the field is
\* dropped.
Filter_Simple_FieldRequired(attr, results) ==
    LET attrname == LowerName(attr.cls)
    IN  {item \in results :
            /\ attrname \in DOMAIN item.scalar
            /\ Lower(item.scalar[attrname]) = Lower(attr.value)}

\* The rule for _VSOSimpleAttr
Filter_Simple(attr, results) ==
    LET attrname == LowerName(attr.cls)
    IN  {item \in results :
            \/ attrname \notin DOMAIN item.scalar
            \/ Lower(item.scalar[attrname]) = Lower(attr.value)}

\* The rule for DummyAttr and Field: set(results)
Filter_Pass(attr, results) == results

\* The rule for Wave
Filter_Wave(attr, results) ==
    {it \in results :
        /\ attr.min <= to_angstrom(it.wavemax, it.waveunit)
        /\ attr.max >= to_angstrom(it.wavemin, it.waveunit)}

RECURSIVE filter_results(_, _)

\* The rule for AttrAnd, from child i on: res &= filter_results(elem, res)
RECURSIVE Filter_AttrAnd(_, _, _)
Filter_AttrAnd(attrs, i, res) ==
    IF i > Len(attrs) THEN res
    ELSE Filter_AttrAnd(attrs, i + 1, res \cap filter_results(attrs[i], res))

\* The rule for AttrOr, from child i on: res |= filter_results(elem, results)
RECURSIVE Filter_AttrOr(_, _, _, _)
Filter_AttrOr(attrs, i, res, results) ==
    IF i > Len(attrs) THEN res
    ELSE Filter_AttrOr(attrs, i + 1, res \cup filter_results(attrs[i], results), results)

\* filter_results(attr, results): the rule registered for attr's class
filter_results(attr, results) ==
    CASE attr.cls = "AttrAnd" -> Filter_AttrAnd(attr.attrs, 1, results)
      [] attr.cls = "AttrOr" -> Filter_AttrOr(attr.attrs, 1, {}, results)
      [] attr.cls \in ScalarClasses -> Filter_Simple(attr, results)
      [] attr.cls = "Wave" -> Filter_Wave(attr, results)
      [] attr.cls \in {"DummyAttr", "Field"} -> Filter_Pass(attr, results)

\* The largest number of leaves of a tree handed to filter_results.
MaxFilterLeaves == 3

\* The leaves of the trees handed to filter_results.
FilterLeaves ==
    {Scalar("Instrument", "AIA"), Scalar("Instrument", "hmi"), Wave(150, 250),
     DummyAttr, Field("x")}

InitFilter ==
    /\ lhs \in FilterLeaves
    /\ rhs \in SUBSET Items
    /\ op = "new"
    /\ out = NoCall

\* The caller constructs a leaf.
NewFilterLeaf ==
    /\ lhs' \in FilterLeaves
    /\ op' = "new"
    /\ out' = NoCall
    /\ UNCHANGED rhs

\* The caller constructs AttrAnd([..]) or AttrOr([..]) of the tree and a leaf.
Wrap ==
    /\ NumLeaves(lhs) < MaxFilterLeaves
    /\ \E l \in FilterLeaves :
          \/ lhs' = AttrAnd(<<lhs, l>>)
          \/ lhs' = AttrAnd(<<l, lhs>>)
          \/ lhs' = AttrOr(<<lhs, l>>)
          \/ lhs' = AttrOr(<<l, lhs>>)
    /\ op' = "new"
    /\ out' = NoCall
    /\ UNCHANGED rhs

\* The caller constructs the conjunction or disjunction with one more child.
Extend ==
    /\ lhs.cls \in {"AttrAnd", "AttrOr"}
    /\ NumLeaves(lhs) < MaxFilterLeaves
    /\ \E l \in FilterLeaves : lhs' = [lhs EXCEPT !.attrs = Append(@, l)]
    /\ op' = "new"
    /\ out' = NoCall
    /\ UNCHANGED rhs

\* The backend returns a collection of records.
Candidates ==
    /\ rhs' \in SUBSET Items
    /\ op' = "new"
    /\ out' = NoCall
    /\ UNCHANGED lhs

\* filter_results(lhs, rhs)
Filter ==
    /\ op' = "filter_results"
    /\ out' = [kind |-> "set", val |-> filter_results(lhs, rhs)]
    /\ UNCHANGED <<lhs, rhs>>

NextFilter == NewFilterLeaf \/ Wrap \/ Extend \/ Candidates \/ Filter

SpecFilter == InitFilter /\ [][NextFilter]_vars

RECURSIVE Sat(_, _)
\* The record satisfies the tree read as a boolean formula.
Sat(t, item) ==
    CASE t.cls = "AttrAnd" -> \A i \in 1..Len(t.attrs) : Sat(t.attrs[i], item)
      [] t.cls = "AttrOr" -> \E i \in 1..Len(t.attrs) : Sat(t.attrs[i], item)
      [] t.cls \in ScalarClasses ->
            \/ LowerName(t.cls) \notin DOMAIN item.scalar
            \/ Lower(item.scalar[LowerName(t.cls)]) = Lower(t.value)
      [] t.cls = "Wave" ->
            /\ t.min <= to_angstrom(item.wavemax, item.waveunit)
            /\ t.max >= to_angstrom(item.wavemin, item.waveunit)
      [] OTHER -> TRUE

RECURSIVE Reversed(_)
\* The tree with the children of every node in the opposite order.
Reversed(t) ==
    [t EXCEPT !.attrs = [i \in 1..Len(t.attrs) |-> Reversed(t.attrs[Len(t.attrs) + 1 - i])]]

\* C8: filter_results(t, S) is the set of the members of S that satisfy t as
\* a boolean formula; it is a subset of S and is the same with the children
\* of every node in the opposite order.
C8_FilterIsSatisfaction ==
    op = "filter_results" =>
        /\ out.val = {item \in rhs : Sat(lhs, item)}
        /\ out.val \subseteq rhs
        /\ out.val = filter_results(Reversed(lhs), rhs)

\* C8 witness: AttrAnd([Instrument('AIA'), Wave(150, 250)]) filtered all four
\* records down to the 200 Angstrom 'aia' record and the 20 nm record without
\* an instrument field.
C8_Witness ==
    /\ op = "filter_results"
    /\ lhs = AttrAnd(<<Scalar("Instrument", "AIA"), Wave(150, 250)>>)
    /\ rhs = Items
    /\ out.val = {Item([instrument |-> "aia"], 200, 200, "Angstrom"),
                  Item([provider |-> "SDAC"], 20, 20, "nm")}

====
